---------------------------- MODULE Spec2Model ----------------------------
(***************************************************************************)
(* FxHasher of rustc-hash (src/src/lib.rs): the accumulator, the mixing    *)
(* step add_to_hash, the chunked byte consumption of Hasher::write, finish *)
(* and the constructors with_seed / default / FxBuildHasher::build_hasher. *)
(*                                                                         *)
(* A usize is a tuple of `width` bytes, least significant byte first       *)
(* (width = size_of::<usize>(), 4 or 8), so that 64-bit wrapping           *)
(* arithmetic is computed limb by limb.  A byte slice is a view            *)
(* [buf, lo] of the bytes buf[lo+1 .. Len(buf)] of a buffer.               *)
(***************************************************************************)
EXTENDS Integers, Sequences, FiniteSets, TLC

VARIABLES
    width,      \* size_of::<usize>() of the build target, in bytes
    endian,     \* byte order of the build target: "le" or "be"
    script,     \* the write calls the caller makes on each hasher, in order
    ctor,       \* per hasher: the constructor call that makes it
    built,      \* per hasher: whether it has been constructed
    hash,       \* per hasher: FxHasher.hash (<<>> until it is built)
    pos,        \* per hasher: how many calls of the script it has received
    trace,      \* per hasher: hash when built and after each call received
    taken,      \* per hasher: the chunks its latest write took, as [off, len]
    rest,       \* per hasher: the slice left over when its latest write returned
    digest,     \* per hasher: what finish() returned, as [at |-> pos, val |-> u64]
    finishes    \* when the caller reads a digest: "end" (after the last call of
                \* the script, as BuildHasher::hash_one does) or "any"

vars ==
    <<width, endian, script, ctor, built, hash, pos, trace, taken, rest, digest,
      finishes>>

-----------------------------------------------------------------------------
(* Bytes and words *)

Byte == 0 .. 255

Zeros(n) == [j \in 1 .. n |-> 0]

Reverse(s) == [j \in 1 .. Len(s) |-> s[Len(s) + 1 - j]]

\* `as usize` / `as u64` of an unsigned value: zero extension, or truncation
Cast(v, n) == [j \in 1 .. n |-> IF j <= Len(v) THEN v[j] ELSE 0]

RECURSIVE XorByte(_, _)
XorByte(a, b) ==
    IF a = 0 THEN b
    ELSE IF b = 0 THEN a
    ELSE ((a + b) % 2) + 2 * XorByte(a \div 2, b \div 2)

\* core::ops::BitXor on two usize
bitxor(a, b) == [j \in 1 .. Len(a) |-> XorByte(a[j], b[j])]

\* usize::rotate_left(self, n) for 0 < n < 8
rotate_left(a, n) ==
    LET w == Len(a)
        up == 2 ^ n
        down == 2 ^ (8 - n)
    IN  [j \in 1 .. w |->
            ((a[j] * up) % 256) + (a[IF j = 1 THEN w ELSE j - 1] \div down)]

RECURSIVE ColumnSum(_, _, _, _)
ColumnSum(a, b, k, j) ==
    IF j = 0 THEN 0 ELSE a[j] * b[k + 1 - j] + ColumnSum(a, b, k, j - 1)

RECURSIVE MulCarry(_, _, _)
\* column k of the schoolbook product, with the carry of the columns below
MulCarry(a, b, k) ==
    IF k = 0 THEN 0
    ELSE ColumnSum(a, b, k, k) + (MulCarry(a, b, k - 1) \div 256)

\* usize::wrapping_mul: the product modulo 2^(8 * width)
wrapping_mul(a, b) == [k \in 1 .. Len(a) |-> MulCarry(a, b, k) % 256]

K32 == <<185, 121, 55, 158>>

K64 == <<149, 10, 34, 39, 183, 193, 124, 81>>

K == IF width = 4 THEN K32 ELSE K64

-----------------------------------------------------------------------------
(* FxHasher *)

\* with_seed, were it to drop its argument
with_seed_ignored(seed) == Zeros(Len(seed))

with_seed(seed) == seed

\* default, were it to start from 1
default_one == <<1>> \o Zeros(width - 1)

default == Zeros(width)

\* build_hasher, were it to seed the hasher with K
build_hasher_K == K

build_hasher == default

\* add_to_hash, were it to XOR before it rotates
add_to_hash_xor_first(h, i) == wrapping_mul(rotate_left(bitxor(h, i), 5), K)

add_to_hash(h, i) == wrapping_mul(bitxor(rotate_left(h, 5), i), K)

SliceLen(slice) == Len(slice.buf) - slice.lo

\* take_first_chunk, were its test `slice.len() <= N`
take_first_chunk_le(slice, N) ==
    IF SliceLen(slice) <= N
    THEN [some |-> FALSE, slice |-> slice]
    ELSE [some |-> TRUE,
          first |-> SubSeq(slice.buf, slice.lo + 1, slice.lo + N),
          off |-> slice.lo,
          slice |-> [buf |-> slice.buf, lo |-> slice.lo + N]]

\* [some |-> FALSE] is None; otherwise the chunk, where it lay, and the rest
take_first_chunk(slice, N) ==
    IF SliceLen(slice) < N
    THEN [some |-> FALSE, slice |-> slice]
    ELSE [some |-> TRUE,
          first |-> SubSeq(slice.buf, slice.lo + 1, slice.lo + N),
          off |-> slice.lo,
          slice |-> [buf |-> slice.buf, lo |-> slice.lo + N]]

\* from_ne_bytes, were it from_le_bytes
from_le_bytes(chunk) == Cast(chunk, width)

\* uN::from_ne_bytes(chunk) as usize
from_ne_bytes(chunk) ==
    Cast(IF endian = "le" THEN chunk ELSE Reverse(chunk), width)

\* uN::to_ne_bytes(v)
to_ne_bytes(v) == IF endian = "le" THEN v ELSE Reverse(v)

\* one `let Some(..) = take_first_chunk::<N>(&mut bytes)` with its body
TakeAndAdd(st, N) ==
    LET r == take_first_chunk(st.bytes, N)
    IN  IF r.some
        THEN [state |-> add_to_hash(st.state, from_ne_bytes(r.first)),
              bytes |-> r.slice,
              taken |-> Append(st.taken, [off |-> r.off, len |-> N]),
              more |-> TRUE]
        ELSE [st EXCEPT !.more = FALSE]

RECURSIVE WordLoop(_)
\* while let Some(&usize_bytes) = take_first_chunk(&mut bytes) { .. }
WordLoop(st) ==
    LET nx == TakeAndAdd(st, width)
    IN  IF nx.more THEN WordLoop(nx) ELSE nx

\* write, were the u16 taken before the u32
write_tail_swapped(h, data) ==
    LET s0 == [state |-> h, bytes |-> [buf |-> data, lo |-> 0],
               taken |-> <<>>, more |-> TRUE]
        s1 == WordLoop(s0)
        s2 == TakeAndAdd(s1, 2)
        s3 == TakeAndAdd(s2, 4)
        s4 == TakeAndAdd(s3, 1)
    IN  [hash |-> s4.state, taken |-> s4.taken, rest |-> s4.bytes]

\* write, were the last byte never taken
write_no_u8(h, data) ==
    LET s0 == [state |-> h, bytes |-> [buf |-> data, lo |-> 0],
               taken |-> <<>>, more |-> TRUE]
        s1 == WordLoop(s0)
        s2 == TakeAndAdd(s1, 4)
        s3 == TakeAndAdd(s2, 2)
    IN  [hash |-> s3.state, taken |-> s3.taken, rest |-> s3.bytes]

\* write, were a zero byte folded when no byte is left
write_pad_tail(h, data) ==
    LET s0 == [state |-> h, bytes |-> [buf |-> data, lo |-> 0],
               taken |-> <<>>, more |-> TRUE]
        s1 == WordLoop(s0)
        s2 == TakeAndAdd(s1, 4)
        s3 == TakeAndAdd(s2, 2)
        s4 == TakeAndAdd(s3, 1)
    IN  [hash |-> IF s4.more THEN s4.state ELSE add_to_hash(s4.state, Zeros(width)),
         taken |-> s4.taken, rest |-> s4.bytes]

\* Hasher::write: the state after the call, and what the call took and left
write(h, data) ==
    LET s0 == [state |-> h, bytes |-> [buf |-> data, lo |-> 0],
               taken |-> <<>>, more |-> TRUE]
        s1 == WordLoop(s0)
        s2 == TakeAndAdd(s1, 4)
        s3 == TakeAndAdd(s2, 2)
        s4 == TakeAndAdd(s3, 1)
    IN  [hash |-> s4.state, taken |-> s4.taken, rest |-> s4.bytes]

\* Hasher::write_u8 .. write_usize are not overridden: the provided methods
\* call self.write(&i.to_ne_bytes())
write_int(h, v) == write(h, to_ne_bytes(v))

\* finish, were it to mix once more before it returns
finish_mixed(h) == Cast(add_to_hash(h, Zeros(Len(h))), 8)

finish(h) == Cast(h, 8)

-----------------------------------------------------------------------------
(* Decimal numerals, as the tests of src/src/lib.rs write their digests *)

RECURSIVE TimesTenPlus(_, _, _)
\* a * 10 + c on the limbs of a from limb j on, modulo 2^(8 * Len(a))
TimesTenPlus(a, c, j) ==
    IF j > Len(a) THEN <<>>
    ELSE <<(a[j] * 10 + c) % 256>> \o TimesTenPlus(a, (a[j] * 10 + c) \div 256, j + 1)

RECURSIVE DecFrom(_, _, _)
DecFrom(digits, j, acc) ==
    IF j > Len(digits) THEN acc
    ELSE DecFrom(digits, j + 1, TimesTenPlus(acc, digits[j], 1))

\* the u64 a decimal numeral (its digits, most significant first) denotes
Dec(digits) == DecFrom(digits, 1, Zeros(8))

-----------------------------------------------------------------------------
(* The caller: what is hashed, by which hashers *)

MaxLen == 17

MaxSplitLen == 9

MaxCalls == 2

RECURSIVE NatBytes(_, _)
\* the n-byte value of a small natural, least significant byte first
NatBytes(v, n) ==
    IF n = 0 THEN <<>> ELSE <<v % 256>> \o NatBytes(v \div 256, n - 1)

\* b"These are some bytes for testing rustc_hash." (tests::bytes)
TestBytes ==
    <<84, 104, 101, 115, 101, 32, 97, 114, 101, 32, 115, 111, 109, 101, 32,
      98, 121, 116, 101, 115, 32, 102, 111, 114, 32, 116, 101, 115, 116, 105,
      110, 103, 32, 114, 117, 115, 116, 99, 95, 104, 97, 115, 104, 46>>

Data(n) == {Zeros(n), SubSeq(TestBytes, 1, n)}

W(data) == [op |-> "write", arg |-> data]

RECURSIVE Splits(_, _)
\* every way of cutting data into exactly parts consecutive sub-slices
Splits(data, parts) ==
    IF parts = 1 THEN {<<W(data)>>}
    ELSE UNION {{<<W(SubSeq(data, 1, c))>> \o t :
                    t \in Splits(SubSeq(data, c + 1, Len(data)), parts - 1)} :
                c \in 0 .. Len(data)}

WholeScripts == UNION {{<<W(d)>> : d \in Data(n)} : n \in 0 .. MaxLen}

SplitScripts ==
    UNION {UNION {Splits(d, MaxCalls) : d \in Data(n)} : n \in 0 .. MaxSplitLen}

IntSizes(w) ==
    [write_u8 |-> 1, write_u16 |-> 2, write_u32 |-> 4, write_u64 |-> 8,
     write_usize |-> w]

IntOps == {"write_u8", "write_u16", "write_u32", "write_u64", "write_usize"}

\* 0, 1, 100 and the type's MAX (tests::unsigned)
IntValues(n) ==
    {NatBytes(0, n), NatBytes(1, n), NatBytes(100, n), [j \in 1 .. n |-> 255]}

IntCalls(w) ==
    UNION {{[op |-> o, arg |-> v] : v \in IntValues(IntSizes(w)[o])} : o \in IntOps}

IntScripts(w) ==
    {<<c>> : c \in IntCalls(w)} \cup {<<W(<<117, 119, 117>>), c>> : c \in IntCalls(w)}

Scripts(w) == WholeScripts \cup SplitScripts \cup IntScripts(w)

Seeds(w) == {NatBytes(42, w), [j \in 1 .. w |-> 255]}

Ctors(w) ==
    {[kind |-> "default"], [kind |-> "build_hasher"]}
        \cup {[kind |-> "with_seed", seed |-> s] : s \in Seeds(w)}

\* the accumulator of a freshly constructed hasher
Construct(c) ==
    CASE c.kind = "with_seed" -> with_seed(c.seed)
      [] c.kind = "default" -> default
      [] c.kind = "build_hasher" -> build_hasher

NoSlice == [buf |-> <<>>, lo |-> 0]

\* target_pointer_width = "32" and "64"
Widths == {4, 8}

\* scripts and ctors map each width to the scripts and constructor calls tried
InitWith(scripts, ctors, when) ==
    /\ width \in Widths
    /\ endian \in {"le", "be"}
    /\ script \in scripts[width]
    /\ ctor \in ctors[width]
    /\ built = [i \in DOMAIN ctor |-> FALSE]
    /\ hash = [i \in DOMAIN ctor |-> <<>>]
    /\ pos = [i \in DOMAIN ctor |-> 0]
    /\ trace = [i \in DOMAIN ctor |-> <<>>]
    /\ taken = [i \in DOMAIN ctor |-> <<>>]
    /\ rest = [i \in DOMAIN ctor |-> NoSlice]
    /\ digest = [i \in DOMAIN ctor |-> {}]
    /\ finishes = when

OneHasher(w) == {<<c>> : c \in Ctors(w)}

\* one hasher, used as hash_one uses it: built, written to, finished
Init ==
    InitWith([w \in Widths |-> Scripts(w)], [w \in Widths |-> OneHasher(w)], "end")

Hashers == DOMAIN ctor

\* one thread drives the hashers one after the other: hasher i is built once
\* every hasher before it has received the whole script and been finished
Turn(i) ==
    \A j \in Hashers :
        j < i => \E d \in digest[j] : d.at = Len(script)

\* FxHasher::with_seed(seed) / FxHasher::default() / FxBuildHasher.build_hasher()
New(i) ==
    /\ ~built[i]
    /\ Turn(i)
    /\ built' = [built EXCEPT ![i] = TRUE]
    /\ hash' = [hash EXCEPT ![i] = Construct(ctor[i])]
    /\ trace' = [trace EXCEPT ![i] = <<Construct(ctor[i])>>]
    /\ UNCHANGED <<width, endian, script, ctor, pos, taken, rest, digest, finishes>>

Called(i, r) ==
    /\ hash' = [hash EXCEPT ![i] = r.hash]
    /\ trace' = [trace EXCEPT ![i] = Append(trace[i], r.hash)]
    /\ taken' = [taken EXCEPT ![i] = r.taken]
    /\ rest' = [rest EXCEPT ![i] = r.rest]
    /\ pos' = [pos EXCEPT ![i] = pos[i] + 1]
    /\ UNCHANGED <<width, endian, script, ctor, built, digest, finishes>>

\* hasher.write(bytes)
Write(i) ==
    /\ built[i]
    /\ pos[i] < Len(script)
    /\ script[pos[i] + 1].op = "write"
    /\ Called(i, write(hash[i], script[pos[i] + 1].arg))

\* hasher.write_u8(v) .. hasher.write_usize(v)
WriteInt(i) ==
    /\ built[i]
    /\ pos[i] < Len(script)
    /\ script[pos[i] + 1].op \in IntOps
    /\ Called(i, write_int(hash[i], script[pos[i] + 1].arg))

\* hasher.finish()
Finish(i) ==
    /\ built[i]
    /\ finishes = "end" => pos[i] = Len(script)
    /\ digest' = [digest EXCEPT
                    ![i] = digest[i] \cup {[at |-> pos[i], val |-> finish(hash[i])]}]
    /\ UNCHANGED <<width, endian, script, ctor, built, hash, pos, trace, taken, rest,
                   finishes>>

NewStep == \E i \in Hashers : New(i)

WriteStep == \E i \in Hashers : Write(i)

WriteIntStep == \E i \in Hashers : WriteInt(i)

FinishStep == \E i \in Hashers : Finish(i)

Next == NewStep \/ WriteStep \/ WriteIntStep \/ FinishStep

Spec == Init /\ [][Next]_vars

MaxPairLen == 3

\* the seed pairs of tests::with_seed_actually_different
TestSeedPairs(w) ==
    {<<NatBytes(1, w), NatBytes(2, w)>>,
     <<NatBytes(42, w), NatBytes(17, w)>>,
     <<NatBytes(124436707, w), NatBytes(99237, w)>>,
     <<Zeros(w), [j \in 1 .. w |-> 255]>>}

Seeded(s) == [kind |-> "with_seed", seed |-> s]

\* seeds that differ in the top bit only, and in one low bit only
MoreSeedPairs(w) ==
    {<<Zeros(w), [j \in 1 .. w |-> IF j = w THEN 128 ELSE 0]>>,
     <<NatBytes(1, w), NatBytes(33, w)>>}

TwoHashers(w) ==
    {<<Seeded(p[1]), Seeded(p[2])>> : p \in TestSeedPairs(w) \cup MoreSeedPairs(w)}
        \cup {<<Seeded(s), Seeded(s)>> : s \in Seeds(w)}
        \cup {<<[kind |-> "default"], [kind |-> "build_hasher"]>>,
              <<[kind |-> "build_hasher"], [kind |-> "default"]>>}

PairScripts(w) ==
    {<<W(<<x>>)>> : x \in Byte}
        \cup UNION {UNION {Splits(d, MaxCalls) : d \in Data(n)} : n \in 0 .. MaxPairLen}
        \cup {<<c>> : c \in IntCalls(w)}

\* two hashers, each fed the same script, one after the other
InitPair ==
    InitWith([w \in Widths |-> PairScripts(w)], [w \in Widths |-> TwoHashers(w)], "end")

SpecPair == InitPair /\ [][Next]_vars

FinishScripts(w) ==
    UNION {UNION {Splits(d, MaxCalls) : d \in Data(n)} : n \in 0 .. MaxPairLen}
        \cup IntScripts(w)

\* one hasher, finished at any time and any number of times
InitFinish ==
    InitWith([w \in Widths |-> FinishScripts(w)], [w \in Widths |-> OneHasher(w)],
             "any")

SpecFinish == InitFinish /\ [][Next]_vars

-----------------------------------------------------------------------------
(* What the properties below speak of *)

\* the latest call hasher i received, and the accumulator it found
LastCall(i) == script[pos[i]]

Entry(i) == trace[i][pos[i]]

Wrote(i) == built[i] /\ pos[i] > 0

WroteBytes(i) == Wrote(i) /\ LastCall(i).op = "write"

\* the native-endian integer in data[off + 1 .. off + n], zero-extended to a word
NativeWord(data, off, n) ==
    [j \in 1 .. width |->
        IF j > n THEN 0
        ELSE IF endian = "le" THEN data[off + j] ELSE data[off + n + 1 - j]]

RECURSIVE FoldWords(_, _, _, _)
\* the fold of the mixing step over words k + 1 .. nw of data
FoldWords(h, data, k, nw) ==
    IF k >= nw THEN h
    ELSE FoldWords(add_to_hash(h, NativeWord(data, k * width, width)), data, k + 1, nw)

\* floor(n / W) words, then a u32 if 4 bytes remain, a u16 if 2, a u8 if 1
ChunkFold(h, data) ==
    LET n == Len(data)
        nw == n \div width
        o4 == nw * width
        h4 == FoldWords(h, data, 0, nw)
        o2 == IF n - o4 >= 4 THEN o4 + 4 ELSE o4
        h2 == IF n - o4 >= 4 THEN add_to_hash(h4, NativeWord(data, o4, 4)) ELSE h4
        o1 == IF n - o2 >= 2 THEN o2 + 2 ELSE o2
        h1 == IF n - o2 >= 2 THEN add_to_hash(h2, NativeWord(data, o2, 2)) ELSE h2
    IN  IF n - o1 = 1 THEN add_to_hash(h1, NativeWord(data, o1, 1)) ELSE h1

RECURSIVE Flatten(_)
\* the concatenation of the slices a script of write calls passes
Flatten(calls) ==
    IF calls = <<>> THEN <<>> ELSE Head(calls).arg \o Flatten(Tail(calls))

AllWrites(calls) == \A k \in 1 .. Len(calls) : calls[k].op = "write"

AllZero(calls) ==
    \A k \in 1 .. Len(calls) : \A j \in 1 .. Len(calls[k].arg) : calls[k].arg[j] = 0

\* the offset at which call k of the script starts in the concatenation
RECURSIVE CutBefore(_, _)
CutBefore(calls, k) ==
    IF k <= 1 THEN 0 ELSE CutBefore(calls, k - 1) + Len(calls[k - 1].arg)

\* c is where a chunk of a single write of n bytes ends (or 0)
ChunkBoundary(c, n) ==
    LET base == (n \div width) * width
        r == n - base
    IN  \/ c % width = 0
        \/ c - base \in {(r \div 4) * 4, (r \div 2) * 2, r}

Fed(i) == built[i] /\ pos[i] = Len(script) /\ AllWrites(script)

-----------------------------------------------------------------------------
(* C1: boundary-insensitivity.  As claimed, for every split of s into        *)
(* sub-slices, the successive writes leave the accumulator (and so the     *)
(* digest) a single write(s) on a hasher of the same seed leaves.          *)
C1_AnySplit ==
    \A i \in Hashers :
        Fed(i) => hash[i] = write(Construct(ctor[i]), Flatten(script)).hash

(* C1, amended: the successive writes agree with the single write(s)       *)
(* whenever every cut between two sub-slices falls where a chunk of the    *)
(* single write ends: at a multiple of the word width or, in the last      *)
(* n mod W bytes, after their 4-byte, 2-byte or 1-byte chunk.              *)
C1_SplitAtChunks ==
    \A i \in Hashers :
        (/\ Fed(i)
         /\ \A k \in 2 .. Len(script) :
                ChunkBoundary(CutBefore(script, k), Len(Flatten(script))))
            => /\ hash[i] = write(Construct(ctor[i]), Flatten(script)).hash
               /\ \A d \in digest[i] :
                    d.at = pos[i]
                        => d.val = finish(write(Construct(ctor[i]), Flatten(script)).hash)

\* a word and a byte, written as two slices, then finished
C1_Witness ==
    \E i \in Hashers :
        /\ Fed(i) /\ Len(script) >= 2
        /\ Len(script[1].arg) = width /\ Len(script[Len(script)].arg) = 1
        /\ hash[i] # Entry(i)
        /\ \E d \in digest[i] : d.at = pos[i]

-----------------------------------------------------------------------------
(* C2: one write(bytes) on accumulator h leaves the left-to-right fold of  *)
(* the mixing step from h over the floor(n/W) native-endian words, then    *)
(* the next 4 bytes as a u32 if at least 4 remain, then the next 2 as a    *)
(* u16 if at least 2 remain, then the last byte if 1 remains.              *)
C2_ChunkedFold ==
    \A i \in Hashers :
        WroteBytes(i) => hash[i] = ChunkFold(Entry(i), LastCall(i).arg)

\* 15 bytes on a 64-bit target: a word, then a u32, a u16 and a u8
C2_Witness ==
    \E i \in Hashers :
        /\ WroteBytes(i) /\ width = 8
        /\ Len(LastCall(i).arg) = 15
        /\ hash[i] = ChunkFold(Entry(i), LastCall(i).arg)
        /\ hash[i] # Entry(i)

-----------------------------------------------------------------------------
(* C3: the chunks a write takes start at offset 0, each starts where the   *)
(* one before ended, they end at bytes.len() and leave the slice empty;    *)
(* the first floor(n/W) are words and the ones after are of 4, 2 or 1      *)
(* bytes, strictly descending (so at most one of each).                    *)
C3_EveryByteOnce ==
    \A i \in Hashers :
        Wrote(i) =>
            LET t == taken[i]
                n == Len(LastCall(i).arg)
                nw == n \div width
            IN  /\ t # <<>> => t[1].off = 0 /\ t[Len(t)].off + t[Len(t)].len = n
                /\ t = <<>> => n = 0
                /\ \A k \in 1 .. Len(t) - 1 : t[k + 1].off = t[k].off + t[k].len
                /\ Len(rest[i].buf) = n /\ rest[i].lo = n
                /\ Len(t) >= nw
                /\ \A k \in 1 .. Len(t) :
                    IF k <= nw THEN t[k].len = width ELSE t[k].len \in {4, 2, 1}
                /\ \A k \in nw + 1 .. Len(t) - 1 : t[k].len > t[k + 1].len

\* 15 bytes on a 64-bit target: chunks of 8, 4, 2 and 1 bytes
C3_Witness ==
    \E i \in Hashers :
        /\ Wrote(i) /\ width = 8
        /\ taken[i] = <<[off |-> 0, len |-> 8], [off |-> 8, len |-> 4],
                        [off |-> 12, len |-> 2], [off |-> 14, len |-> 1]>>
        /\ rest[i].lo = 15

-----------------------------------------------------------------------------
(* C9: write(&[]) leaves the accumulator as it found it, whatever it is;   *)
(* a zero-seeded hasher that received only empty writes has digest 0.      *)
C9_EmptyWrite ==
    \A i \in Hashers :
        /\ (WroteBytes(i) /\ LastCall(i).arg = <<>>) => hash[i] = Entry(i)
        /\ (/\ built[i]
            /\ ctor[i].kind \in {"default", "build_hasher"}
            /\ \A k \in 1 .. pos[i] : script[k] = W(<<>>))
                => \A d \in digest[i] : d.val = Dec(<<0>>)

\* an empty write on an accumulator that a seed and an earlier write made
C9_Witness ==
    \E i \in Hashers :
        /\ WroteBytes(i) /\ pos[i] = 2
        /\ LastCall(i).arg = <<>>
        /\ ctor[i].kind = "with_seed"
        /\ trace[i][1] # trace[i][2]
        /\ hash[i] = Entry(i)

-----------------------------------------------------------------------------
(* C10: a zero-seeded hasher that has received only zero bytes, in any     *)
(* number of calls of any lengths, has accumulator 0 and digest 0.         *)
C10_ZeroFixedPoint ==
    \A i \in Hashers :
        (/\ built[i]
         /\ ctor[i].kind \in {"default", "build_hasher"}
         /\ AllZero(SubSeq(script, 1, pos[i])))
            => /\ hash[i] = [j \in 1 .. width |-> 0]
               /\ \A d \in digest[i] : d.val = Dec(<<0>>)

\* two writes of zero bytes, the first of them a word or more, then finish
C10_Witness ==
    \E i \in Hashers :
        /\ built[i] /\ pos[i] >= 2
        /\ ctor[i].kind = "build_hasher"
        /\ AllWrites(script) /\ AllZero(script)
        /\ Len(script[1].arg) >= width /\ Len(script[pos[i]].arg) >= 1
        /\ \E d \in digest[i] : d.at = pos[i]


-----------------------------------------------------------------------------
(* The mixing step once more, on 4-bit limbs, from the hexadecimal         *)
(* numerals of K in src/src/lib.rs                                         *)

\* 0x9e3779b9 and 0x517cc1b727220a95, most significant digit first
KHex32 == <<9, 14, 3, 7, 7, 9, 11, 9>>

KHex64 == <<5, 1, 7, 12, 12, 1, 11, 7, 2, 7, 2, 2, 0, 10, 9, 5>>

\* the hexadecimal digits of a word, least significant first
Nibbles(a) ==
    [q \in 1 .. 2 * Len(a) |->
        IF q % 2 = 1 THEN a[(q + 1) \div 2] % 16 ELSE a[q \div 2] \div 16]

RefRotl5(x) ==
    LET m == Len(x)
        At(q) == x[((q - 1) % m) + 1]
    IN  [q \in 1 .. m |-> (At(q - 1 + m) % 8) * 2 + (At(q - 2 + m) \div 8)]

RefXor(x, y) ==
    [q \in 1 .. Len(x) |->
        ((x[q] + y[q]) % 2)
            + 2 * (((x[q] \div 2) + (y[q] \div 2)) % 2)
            + 4 * (((x[q] \div 4) + (y[q] \div 4)) % 2)
            + 8 * (((x[q] \div 8) + (y[q] \div 8)) % 2)]

RECURSIVE RefMulFrom(_, _, _, _, _, _)
\* the digits of x * y from digit k on: t gathers column k, j runs over its terms
RefMulFrom(x, y, k, j, t, m) ==
    IF k > m THEN <<>>
    ELSE IF j <= k THEN RefMulFrom(x, y, k, j + 1, t + x[j] * y[k + 1 - j], m)
    ELSE <<t % 16>> \o RefMulFrom(x, y, k + 1, 1, t \div 16, m)

\* ((rotate_left(h, 5) XOR i) * K) mod 2^W on hexadecimal digits
RefMerge(h, i) ==
    LET kk == Reverse(IF width = 4 THEN KHex32 ELSE KHex64)
    IN  RefMulFrom(RefXor(RefRotl5(h), i), kk, 1, 1, 0, Len(h))

\* the usize the latest call folded, when it folded one
CallValue(i) ==
    IF LastCall(i).op = "write"
    THEN NativeWord(LastCall(i).arg, 0, Len(LastCall(i).arg))
    ELSE [j \in 1 .. width |->
            IF j <= Len(LastCall(i).arg) THEN LastCall(i).arg[j] ELSE 0]

ZeroSeeded(i) == ctor[i].kind \in {"default", "build_hasher"}

KDecimal ==
    IF width = 4
    THEN Dec(<<2, 6, 5, 4, 4, 3, 5, 7, 6, 9>>)
    ELSE Dec(<<5, 8, 7, 1, 7, 8, 1, 0, 0, 6, 5, 6, 4, 0, 0, 2, 4, 5, 3>>)

-----------------------------------------------------------------------------
(* C5: a call that folds one value i into accumulator h leaves             *)
(* ((rotate_left(h, 5) XOR i) * K) mod 2^W, with K = 0x517cc1b727220a95    *)
(* for W = 64 and 0x9e3779b9 for W = 32; a zero-seeded hasher fed the      *)
(* single value 1 has digest 5871781006564002453, or 2654435769 on 32 bit. *)
C5_MixingStep ==
    \A i \in Hashers :
        (Wrote(i) /\ Len(taken[i]) = 1)
            => /\ Nibbles(hash[i]) = RefMerge(Nibbles(Entry(i)), Nibbles(CallValue(i)))
               /\ (ZeroSeeded(i) /\ pos[i] = 1 /\ CallValue(i) = NatBytes(1, width))
                    => \A d \in digest[i] : d.at = 1 => d.val = KDecimal

\* a default hasher fed the byte 1 and finished, on a 64-bit target
C5_Witness ==
    \E i \in Hashers :
        /\ Wrote(i) /\ Len(taken[i]) = 1 /\ width = 8
        /\ ctor[i].kind = "default" /\ pos[i] = 1
        /\ CallValue(i) = NatBytes(1, width)
        /\ [at |-> 1, val |-> KDecimal] \in digest[i]

-----------------------------------------------------------------------------
(* C4: write_u8/u16/u32/u64/usize(v) leaves what write(&v.to_ne_bytes())   *)
(* leaves, and for a value no wider than the word that is one mixing step  *)
(* with v zero-extended.                                                   *)
C4_FixedWidthWrites ==
    \A i \in Hashers :
        (Wrote(i) /\ LastCall(i).op \in IntOps)
            => LET v == LastCall(i).arg
                   ne == [j \in 1 .. Len(v) |->
                            IF endian = "le" THEN v[j] ELSE v[Len(v) + 1 - j]]
               IN  /\ hash[i] = write(Entry(i), ne).hash
                   /\ Len(v) <= width
                        => /\ Len(taken[i]) = 1
                           /\ hash[i] = add_to_hash(Entry(i), CallValue(i))

\* write_u16(1) on a seeded hasher of a big-endian target
C4_Witness ==
    \E i \in Hashers :
        /\ Wrote(i) /\ LastCall(i) = [op |-> "write_u16", arg |-> <<1, 0>>]
        /\ endian = "be" /\ ctor[i].kind = "with_seed"
        /\ hash[i] = add_to_hash(Entry(i), NatBytes(1, width))

-----------------------------------------------------------------------------
(* C6: finish() returns the accumulator, zero-extended to 64 bits and not  *)
(* mixed further, and changes nothing: wherever finish calls are made, the *)
(* accumulator is what the writes alone leave, every digest is that of the *)
(* writes before it, and finish calls with no write between them agree.    *)
C6_FinishIsPureRead ==
    \A i \in Hashers :
        built[i] =>
            /\ hash[i] = trace[i][pos[i] + 1]
            /\ \A k \in 1 .. pos[i] :
                trace[i][k + 1] =
                    IF script[k].op = "write"
                    THEN write(trace[i][k], script[k].arg).hash
                    ELSE write_int(trace[i][k], script[k].arg).hash
            /\ \A d \in digest[i] :
                d.val = [j \in 1 .. 8 |-> IF j <= width THEN trace[i][d.at + 1][j] ELSE 0]
            /\ \A d, e \in digest[i] : d.at = e.at => d.val = e.val

\* finish before, between and after two writes, on a 32-bit target
C6_Witness ==
    \E i \in Hashers :
        /\ built[i] /\ pos[i] = 2 /\ width = 4
        /\ {d.at : d \in digest[i]} = {0, 1, 2}
        /\ trace[i][1] # trace[i][2] /\ trace[i][2] # trace[i][3]

-----------------------------------------------------------------------------
(* C7: two hashers made by with_seed with different seeds, each fed the    *)
(* same single byte by one write, have different digests.                  *)
C7_SeedSensitivity ==
    (/\ Hashers = {1, 2}
     /\ ctor[1].kind = "with_seed" /\ ctor[2].kind = "with_seed"
     /\ ctor[1].seed # ctor[2].seed
     /\ Len(script) = 1 /\ script[1].op = "write" /\ Len(script[1].arg) = 1
     /\ pos[1] = 1 /\ pos[2] = 1)
        => /\ hash[1] # hash[2]
           /\ \A d \in digest[1], e \in digest[2] :
                (d.at = 1 /\ e.at = 1) => d.val # e.val

\* the seeds usize::MIN and usize::MAX, the byte 255, both hashers finished
C7_Witness ==
    /\ Hashers = {1, 2}
    /\ ctor[1] = Seeded(Zeros(width)) /\ ctor[2] = Seeded([j \in 1 .. width |-> 255])
    /\ script = <<W(<<255>>)>>
    /\ \E d \in digest[1] : d.at = 1
    /\ \E e \in digest[2] : e.at = 1

-----------------------------------------------------------------------------
(* C8: two hashers made by with_seed(k) with the same k, or each by        *)
(* default() or build_hasher(), and fed the same calls hold equal          *)
(* accumulators after every call and return equal digests.                 *)
SameSeed(c, d) ==
    \/ c.kind = "with_seed" /\ d.kind = "with_seed" /\ c.seed = d.seed
    \/ c.kind \in {"default", "build_hasher"} /\ d.kind \in {"default", "build_hasher"}

=============================================================================
